---- MODULE Spec2Model ----
(***************************************************************************)
(* A model of the phoenix/ZenKit parsers: the soft-skin mesh chunk walker  *)
(* (source/softskin_mesh.cc), the texture decoder and its RGBA8 conversion *)
(* (source/texture.cc) and the script symbol indexes (tests/test_script.cc *)
(* exercises them; the script decoder is modelled from the specification). *)
(*                                                                         *)
(* Bytes are integers 0..255.  A 32-bit unsigned value is kept as the four *)
(* bytes the stream holds (little-endian digits), since the model checker's *)
(* integers end at 2^31-1; it is turned into an integer only where it is   *)
(* known to fit.                                                           *)
(***************************************************************************)
EXTENDS Integers, Sequences, FiniteSets, TLC

VARIABLES
    input,      \* softskin_mesh::parse: the bytes of the buffer `in`
    src,        \* the chunk list the input was built from
    edit,       \* how the input differs from the encoding of src
    ps,         \* softskin_mesh::parse: cursor, mesh, end_mesh, status
    tin,        \* texture::parse: the bytes of the buffer `in`
    tx,         \* texture::parse: cursor, loop level, the texture being built
    rgba,       \* the outcome of the last as_rgba8 call
    mip,        \* _ztex_mipmap_size: the arguments and the result
    pending,    \* script::parse: the symbol records not yet read
    scr,        \* the script: symbols and indexes
    look        \* the last symbol lookup and its answer

vars == <<input, src, edit, ps, tin, tx, rgba, mip, pending, scr, look>>

meshVars == <<input, src, edit, ps>>

textureVars == <<tin, tx, rgba>>

scriptVars == <<pending, scr, look>>

----------------------------------------------------------------------------
(* Little-endian encoding and decoding *)

Enc16(n) == <<n % 256, (n \div 256) % 256>>

Enc32(n) == <<n % 256, (n \div 256) % 256, (n \div 65536) % 256, (n \div 16777216) % 256>>

Dec16(d) == d[1] + 256 * d[2]

\* A u32 given by its four bytes is below 2^31.
Fits31(d) == d[4] < 128

\* The value of a u32 that is below 2^31.
Dec32(d) == d[1] + 256 * d[2] + 65536 * d[3] + 16777216 * d[4]

RECURSIVE Concat(_)
Concat(ss) == IF ss = <<>> THEN <<>> ELSE Head(ss) \o Concat(Tail(ss))

----------------------------------------------------------------------------
(* The byte cursor: a record [bytes, pos], pos counted from 0 *)

Buffer(bytes) == [bytes |-> bytes, pos |-> 0]

remaining(b) == Len(b.bytes) - b.pos

\* The n bytes at the cursor (the caller has checked n <= remaining).
peek(b, n) == SubSeq(b.bytes, b.pos + 1, b.pos + n)

skip(b, n) == [b EXCEPT !.pos = b.pos + n]

\* extract(n): the sub-cursor over the next n bytes; the parent advances by n.
extract(b, n) == [chunk |-> Buffer(peek(b, n)), parent |-> skip(b, n)]

\* position(p) is bounds-checked: p may not lie past the end.
can_position(b, p) == p >= 0 /\ p <= Len(b.bytes)

----------------------------------------------------------------------------
(* Unsigned numbers as little-endian sequences of base-256 digits *)

IsZero(d) == \A i \in 1..Len(d) : d[i] = 0

\* d keeps its first n digits: the value modulo 256^n, zero-extended.
Trunc(d, n) == [i \in 1..n |-> IF i <= Len(d) THEN d[i] ELSE 0]

RECURSIVE Norm(_)
Norm(d) == IF d # <<>> /\ d[Len(d)] = 0 THEN Norm(SubSeq(d, 1, Len(d) - 1)) ELSE d

One(n) == [i \in 1..n |-> IF i = 1 THEN 1 ELSE 0]

\* max(1, d)
Max1(d) == IF IsZero(d) THEN One(Len(d)) ELSE d

\* d > 1
Gt1(d) == d # <<>> /\ (d[1] > 1 \/ \E i \in 2..Len(d) : d[i] # 0)

\* d >> 1
Shr1(d) == [i \in 1..Len(d) |->
               (d[i] \div 2) + (IF i < Len(d) THEN (d[i + 1] % 2) * 128 ELSE 0)]

RECURSIVE Shr(_, _)
Shr(d, n) == IF n <= 0 THEN d ELSE Shr(Shr1(d), n - 1)

RECURSIVE ColSum(_, _, _, _)
ColSum(a, b, k, i) ==
    IF i > Len(a) THEN 0
    ELSE (IF k + 1 - i \in 1..Len(b) THEN a[i] * b[k + 1 - i] ELSE 0) + ColSum(a, b, k, i + 1)

RECURSIVE Carry(_, _, _)
Carry(cols, i, c) ==
    IF i > Len(cols) THEN <<c>>
    ELSE <<(cols[i] + c) % 256>> \o Carry(cols, i + 1, (cols[i] + c) \div 256)

\* a * b, exact: Len(a) + Len(b) digits.
Mul(a, b) == Carry([k \in 1..(Len(a) + Len(b) - 1) |-> ColSum(a, b, k, 1)], 1, 0)

\* The digits of a small number.
Num(n) == Enc32(n)

\* The number as an integer, when it is below 2^31.
FitsInt(d) == Fits31(Trunc(d, 4)) /\ IsZero([i \in 1..(Len(d) - 4) |-> d[i + 4]])

ToInt(d) == Dec32(Trunc(d, 4))

----------------------------------------------------------------------------
(* softskin_mesh.cc *)

chunk_unknown == 0
chunk_header == 57600   \* 0xE100
chunk_end == 57616      \* 0xE110
chunk_proto == 45312    \* 0xB100
chunk_nodes == 45567    \* 0xB1FF

\* The end code of the chunk stream nested in a proto chunk.
proto_end == 45567      \* 0xB1FF

\* The bytes obb::parse reads for one bounding box.
ObbSize == 3

EmptyMesh == [mesh |-> <<>>, weights |-> <<>>, wedge_normals |-> <<>>,
              nodes |-> <<>>, bboxes |-> <<>>]

NoProbe == [seen |-> FALSE, n_n |-> <<0, 0, 0, 0>>, after_n_n |-> 0,
            n_nodes_at |-> 0, node_obbs |-> <<>>]

\* One record of the chunk stream: u16 type, u32 length, then the payload is
\* extracted.  A read past the end throws; pos is where the cursor is left.
ReadRecordShort(buf) ==
    IF remaining(buf) < 2 THEN [ok |-> FALSE, pos |-> buf.pos]
    ELSE LET type == Dec16(peek(buf, 2))
             b1 == skip(buf, 2)
         IN  IF remaining(b1) < 2 THEN [ok |-> FALSE, pos |-> b1.pos]
             ELSE LET length == Dec16(peek(b1, 2))
                      b2 == skip(b1, 2)
                  IN  IF length > remaining(b2)
                      THEN [ok |-> FALSE, pos |-> b2.pos]
                      ELSE [ok |-> TRUE, type |-> type, length |-> length,
                            chunk |-> extract(b2, length).chunk,
                            parent |-> extract(b2, length).parent]

ReadRecord(buf) ==
    IF remaining(buf) < 2 THEN [ok |-> FALSE, pos |-> buf.pos]
    ELSE LET type == Dec16(peek(buf, 2))
             b1 == skip(buf, 2)
         IN  IF remaining(b1) < 4 THEN [ok |-> FALSE, pos |-> b1.pos]
             ELSE LET length == peek(b1, 4)
                      b2 == skip(b1, 4)
                  IN  IF ~Fits31(length) \/ Dec32(length) > remaining(b2)
                      THEN [ok |-> FALSE, pos |-> b2.pos]
                      ELSE [ok |-> TRUE, type |-> type, length |-> Dec32(length),
                            chunk |-> extract(b2, Dec32(length)).chunk,
                            parent |-> extract(b2, Dec32(length)).parent]

Thrown(c, m, g) == [ok |-> FALSE, chunk |-> c, msh |-> m, end_mesh |-> FALSE, probe |-> g]

Decoded(c, m, e, g) == [ok |-> TRUE, chunk |-> c, msh |-> m, end_mesh |-> e, probe |-> g]

\* case header: one u32 (the version) is read and dropped.
DecodeHeader(c, m, g) ==
    IF remaining(c) < 4 THEN Thrown(c, m, g) ELSE Decoded(skip(c, 4), m, FALSE, g)

\* proto_mesh::parse_from_section: a nested chunk stream walked to its end code;
\* the mesh is kept as the list of the chunks seen before it.
RECURSIVE ProtoWalk(_, _)
ProtoWalk(b, acc) ==
    LET r == ReadRecord(b)
    IN  IF ~r.ok THEN [ok |-> FALSE, chunk |-> b, mesh |-> acc]
        ELSE IF r.type = proto_end THEN [ok |-> TRUE, chunk |-> r.parent, mesh |-> acc]
        ELSE ProtoWalk(r.parent, Append(acc, <<r.type, r.chunk.bytes>>))

DecodeProto(c, m, g) ==
    LET w == ProtoWalk(c, <<>>)
    IN  IF ~w.ok THEN Thrown(c, m, g)
        ELSE Decoded(w.chunk, [m EXCEPT !.mesh = w.mesh], FALSE, g)

\* The loops of lines 39-44 and 51-55 run while i < size() of the vector they
\* append to.  reserve() leaves size() alone, so from an empty vector the body
\* never runs; from a non-empty one every pass appends and the bound is never
\* met, until a read runs off the chunk and throws.
SizeBoundLoopOk(vec) == Len(vec) = 0

\* obb::parse: the box is a plain record of ObbSize bytes.
obb_parse(c) == [obb |-> peek(c, ObbSize), chunk |-> skip(c, ObbSize)]

\* _m_nodes.resize(n), then n reads of an i32 (kept as its four bytes).
ReadNodes(c, n) == [i \in 1..n |-> peek(skip(c, 4 * (i - 1)), 4)]

ReadBoxes(c, n) == [i \in 1..n |-> obb_parse(skip(c, ObbSize * (i - 1))).obb]

\* case nodes, from the node count on (lines 57-66).
AppendBoxes(m, nodes, boxes) == [m EXCEPT !.nodes = nodes, !.bboxes = m.bboxes \o boxes]

DecodeNodeTable(c5, m, g) ==
    IF remaining(c5) < 2 THEN Thrown(c5, m, g)
    ELSE LET n_nodes == Dec16(peek(c5, 2))
             c6 == skip(c5, 2)
             c7 == skip(c6, 4 * n_nodes)
             c8 == skip(c7, ObbSize * n_nodes)
         IN  IF remaining(c6) < 4 * n_nodes THEN Thrown(c6, m, g)
             ELSE IF remaining(c7) < ObbSize * n_nodes THEN Thrown(c7, m, g)
             ELSE Decoded(c8, AppendBoxes(m, ReadNodes(c6, n_nodes), ReadBoxes(c7, n_nodes)),
                          FALSE, [g EXCEPT !.seen = TRUE, !.n_nodes_at = c5.pos,
                                          !.node_obbs = ReadBoxes(c7, n_nodes)])

\* case nodes, the wedge normals (lines 48-55): u32 n_n is read and reserved.
DecodeNormals(c3, m, g) ==
    IF remaining(c3) < 4 THEN Thrown(c3, m, g)
    ELSE LET n_n == peek(c3, 4)
             c4 == skip(c3, 4)
             g4 == [g EXCEPT !.n_n = n_n, !.after_n_n = c4.pos]
         IN  IF ~SizeBoundLoopOk(m.wedge_normals) THEN Thrown(c4, m, g)
             ELSE DecodeNodeTable(c4, m, g4)

\* case nodes (lines 28-69).
DecodeNodes(c, m, g) ==
    IF remaining(c) < 4 THEN Thrown(c, m, g)
    ELSE LET weight_buffer_size == peek(c, 4)
             c1 == skip(c, 4)
         IN  IF remaining(c1) < 4 THEN Thrown(c1, m, g)
             ELSE LET c2 == skip(c1, 4)
                  IN  IF ~SizeBoundLoopOk(m.weights) THEN Thrown(c2, m, g)
                      ELSE IF ~Fits31(weight_buffer_size)
                              \/ ~can_position(c2, c1.pos + Dec32(weight_buffer_size))
                      THEN Thrown(c2, m, g)
                      ELSE DecodeNormals([c2 EXCEPT !.pos = c1.pos + Dec32(weight_buffer_size)],
                                         m, g)

\* The switch of lines 21-75.
DispatchDefaultEnds(type, c, m, g) ==
    CASE type = chunk_header -> DecodeHeader(c, m, g)
      [] type = chunk_proto -> DecodeProto(c, m, g)
      [] type = chunk_nodes -> DecodeNodes(c, m, g)
      [] OTHER -> Decoded(c, m, TRUE, g)

Dispatch(type, c, m, g) ==
    CASE type = chunk_header -> DecodeHeader(c, m, g)
      [] type = chunk_proto -> DecodeProto(c, m, g)
      [] type = chunk_nodes -> DecodeNodes(c, m, g)
      [] type = chunk_end -> Decoded(c, m, TRUE, g)
      [] OTHER -> Decoded(c, m, FALSE, g)

\* Lines 77-79: payload bytes the decoder left unread are reported on stderr;
\* nothing is thrown.
LeftoverThrows(c) == FALSE

\* while (!end_mesh)
LoopExitAlways(end_mesh) == FALSE

LoopAgain(end_mesh) == ~end_mesh

StartParse == [pos |-> 0, msh |-> EmptyMesh, end_mesh |-> FALSE, status |-> "running",
               hist |-> <<>>, probe |-> NoProbe]

\* One pass of the do-while of lines 15-80 over the buffer `bytes`.
Iterate(bytes, s) ==
    LET r == ReadRecord([bytes |-> bytes, pos |-> s.pos])
    IN  IF ~r.ok THEN [s EXCEPT !.pos = r.pos, !.status = "failed"]
        ELSE LET d == Dispatch(r.type, r.chunk, s.msh, s.probe)
                 after == IF ~d.ok \/ LeftoverThrows(d.chunk) THEN "failed"
                          ELSE IF LoopAgain(d.end_mesh) THEN "running" ELSE "returned"
                 h == [start |-> s.pos, type |-> r.type, length |-> r.length,
                       used |-> d.chunk.pos, ok |-> d.ok, after |-> after]
             IN  [pos |-> r.parent.pos,
                  msh |-> d.msh,
                  end_mesh |-> d.end_mesh,
                  status |-> after,
                  hist |-> Append(s.hist, h),
                  probe |-> d.probe]

\* softskin_mesh::parse run to its end.
RECURSIVE Run(_, _)
Run(bytes, s) == IF s.status # "running" THEN s ELSE Run(bytes, Iterate(bytes, s))

----------------------------------------------------------------------------
(* texture.cc *)

\* enum texture_format, in the order of its codes 0..14.
Formats == <<"B8G8R8A8", "R8G8B8A8", "A8B8G8R8", "A8R8G8B8", "B8G8R8", "R8G8B8",
             "A4R4G4B4", "A1R5G5B5", "R5G6B5", "p8", "dxt1", "dxt2", "dxt3", "dxt4", "dxt5">>

\* static_cast<texture_format>(u32): a code past the enumerators names no format.
FormatOf(code) ==
    IF FitsInt(code) /\ ToInt(code) < Len(Formats) THEN Formats[ToInt(code) + 1] ELSE "other"

\* unsigned long has 8 bytes (LP64), std::uint32_t has 4.
ULongBytes == 8

U32Bytes == 4

\* The loop of lines 23-28: both sides are halved `level` times, never below 1.
RECURSIVE Halve(_, _)
Halve(x, level) ==
    IF level <= 0 THEN x ELSE Halve(IF Gt1(x) THEN Shr1(x) ELSE x, level - 1)

\* unsigned long arithmetic: the product modulo 2^64.
MulUL(a, b) == Trunc(Mul(a, b), ULongBytes)

\* The switch of lines 30-54 on the halved sides x and y, in unsigned long.
SizeOfLevel(format, x, y) ==
    CASE format \in {"B8G8R8A8", "R8G8B8A8", "A8B8G8R8", "A8R8G8B8"} ->
            MulUL(MulUL(x, y), Num(4))
      [] format \in {"B8G8R8", "R8G8B8"} -> MulUL(MulUL(x, y), Num(3))
      [] format \in {"A4R4G4B4", "A1R5G5B5", "R5G6B5"} -> MulUL(MulUL(x, y), Num(2))
      [] format = "p8" -> MulUL(x, y)
      [] format = "dxt1" -> MulUL(MulUL(Max1(Shr(x, 2)), Max1(Shr(y, 2))), Num(8))
      [] format \in {"dxt2", "dxt3", "dxt4", "dxt5"} ->
            MulUL(MulUL(Max1(Shr(x, 2)), Max1(Shr(y, 2))), Num(16))
      [] OTHER -> Num(0)

\* _ztex_mipmap_size: width and height are widened to unsigned long, the result
\* is returned as std::uint32_t.
ztex_mipmap_size(format, width, height, level) ==
    Trunc(SizeOfLevel(format,
                      Halve(Max1(Trunc(width, ULongBytes)), level),
                      Halve(Max1(Trunc(height, ULongBytes)), level)),
          U32Bytes)

\* ZTEX_SIGNATURE: the magic "ZTEX".
ZTEX_SIGNATURE == <<90, 84, 69, 88>>

ZTEX_PALETTE_ENTRIES == 256

\* (int) of a u32 whose top bit may be set.
AsInt(d) == d[1] + 256 * d[2] + 65536 * d[3] + 16777216 * (IF d[4] >= 128 THEN d[4] - 256 ELSE d[4])

\* mipmap_width(level), mipmap_height(level): the side shifted right by the level.
mipmap_width(t, level) == Shr(t.width, level)

mipmap_height(t, level) == Shr(t.height, level)

\* The four-byte fields of the header after the signature, by position.
HeaderField(b, k) == peek(skip(b, 4 * k), 4)

\* The palette of lines 78-85: entries of b, g, r, a bytes in file order.
ReadPalette(b) ==
    [i \in 1..ZTEX_PALETTE_ENTRIES |->
        LET e == peek(skip(b, 4 * (i - 1)), 4)
        IN  [b |-> e[1], g |-> e[2], r |-> e[3], a |-> e[4]]]

NoTexture == [format |-> "other", stored |-> "other", width |-> Num(0), height |-> Num(0),
              mipmap_count |-> Num(0), reference_width |-> Num(0),
              reference_height |-> Num(0), average_color |-> <<0, 0, 0, 0>>,
              palette |-> <<>>, textures |-> <<>>]

StartTexture == [pc |-> "header", pos |-> 0, level |-> 0, dxt_decompressed |-> FALSE,
                 error |-> "none", tex |-> NoTexture]

TexFailed(t, pos, error) == [t EXCEPT !.pc = "failed", !.pos = pos, !.error = error]

\* The level the loop of line 90 starts at.
FirstLevel(count) == AsInt(count) - 1

\* texture::parse up to the mipmap loop (lines 58-87).
ParseHeader(bytes, t) ==
    LET b0 == Buffer(bytes)
        b1 == skip(b0, 4)
        f == FormatOf(HeaderField(b1, 1))
        b2 == skip(b1, 32)
        n == IF f = "p8" THEN 4 * ZTEX_PALETTE_ENTRIES ELSE 0
    IN  IF remaining(b0) < 4 THEN TexFailed(t, b0.pos, "end_of_stream")
        ELSE IF peek(b0, 4) # ZTEX_SIGNATURE THEN TexFailed(t, b1.pos, "bad_signature")
        ELSE IF remaining(b1) < 4 THEN TexFailed(t, b1.pos, "end_of_stream")
        ELSE IF ~IsZero(HeaderField(b1, 0)) THEN TexFailed(t, b1.pos + 4, "bad_signature")
        ELSE IF remaining(b1) < 32 + n THEN TexFailed(t, Len(bytes), "end_of_stream")
        ELSE [pc |-> "levels",
              pos |-> b2.pos + n,
              level |-> FirstLevel(Max1(HeaderField(b1, 4))),
              dxt_decompressed |-> FALSE,
              error |-> "none",
              tex |-> [format |-> f,
                       stored |-> f,
                       width |-> HeaderField(b1, 2),
                       height |-> HeaderField(b1, 3),
                       mipmap_count |-> Max1(HeaderField(b1, 4)),
                       reference_width |-> HeaderField(b1, 5),
                       reference_height |-> HeaderField(b1, 6),
                       average_color |-> HeaderField(b1, 7),
                       palette |-> IF f = "p8" THEN ReadPalette(b2) ELSE <<>>,
                       textures |-> <<>>]]

\* squish::DecompressImage: the codec is outside the repository; it fills the
\* w * h * 4 bytes it is given.  Only the length of its output is modelled, the
\* bytes are a placeholder.
DecompressImage(n, mipmap) == [i \in 1..n |-> 0]

\* The size of the buffer a DXT level is decompressed into: w * h * 4 in u32.
DecompressedSize(t, level) ==
    Trunc(Mul(Mul(mipmap_width(t, level), mipmap_height(t, level)), Num(4)), U32Bytes)

\* One pass of the loop of lines 90-118, for t.level.
ParseLevel(bytes, t) ==
    LET size == ztex_mipmap_size(t.tex.format, t.tex.width, t.tex.height, t.level)
        b == [bytes |-> bytes, pos |-> t.pos]
        vsize == DecompressedSize(t.tex, t.level)
    IN  IF ~FitsInt(size) \/ ToInt(size) > remaining(b)
        THEN TexFailed(t, t.pos, "end_of_stream")
        ELSE IF t.tex.format \in {"dxt1", "dxt3", "dxt5"}
        THEN IF ~FitsInt(vsize) THEN TexFailed(t, t.pos + ToInt(size), "bad_alloc")
             ELSE [t EXCEPT !.pos = t.pos + ToInt(size),
                            !.level = t.level - 1,
                            !.dxt_decompressed = TRUE,
                            !.tex.textures =
                                Append(@, DecompressImage(ToInt(vsize), peek(b, ToInt(size))))]
        ELSE [t EXCEPT !.pos = t.pos + ToInt(size),
                       !.level = t.level - 1,
                       !.tex.textures = Append(@, peek(b, ToInt(size)))]

\* Lines 120-124.
ParseReturn(t) ==
    [t EXCEPT !.pc = "returned",
              !.tex.format = IF t.dxt_decompressed THEN "R8G8B8A8" ELSE @]

\* data(level): the levels are stored smallest first, level 0 last; at() throws
\* for an index that is not there.
HasData(tex, mipmap_level) ==
    /\ FitsInt(tex.mipmap_count)
    /\ ToInt(tex.mipmap_count) - 1 - mipmap_level \in 0..(Len(tex.textures) - 1)

data(tex, mipmap_level) == tex.textures[ToInt(tex.mipmap_count) - 1 - mipmap_level + 1]

\* struct r5g5b5 (lines 133-137): three 5-bit fields packed from bit 0 of the
\* two bytes at the pixel.
r5g5b5(lo, hi) ==
    LET v == lo + 256 * hi
    IN  [r |-> v % 32, g |-> (v \div 32) % 32, b |-> (v \div 1024) % 32]

\* A read of map[k] (k counted from 0); past the end it is out of bounds.
At(map, k) == IF k < Len(map) THEN map[k + 1] ELSE 0

\* The bytes between two pixels in the source, per format (the loop increment).
Step(format) ==
    CASE format \in {"B8G8R8A8", "A8B8G8R8", "A8R8G8B8"} -> 4
      [] format \in {"B8G8R8", "R8G8B8"} -> 3
      [] format = "R5G6B5" -> 2
      [] OTHER -> 1

\* conv.resize(...): the length of the output buffer.
ConvSize(format, map) ==
    CASE format = "R5G6B5" -> Len(map) * 2
      [] format = "p8" -> Len(map) * 4
      [] OTHER -> Len(map)

\* The index (from 0) the k-th write of the p8 loop pass for source index i goes to.
P8Dest(i, k) == i + k

\* The four writes of one loop pass at source index i: where in conv, what
\* value, and the highest source index read.
Writes(format, map, palette, i) ==
    CASE format = "B8G8R8A8" ->
            <<[dst |-> i, val |-> At(map, i + 2), src |-> i + 2],
              [dst |-> i + 1, val |-> At(map, i + 1), src |-> i + 1],
              [dst |-> i + 2, val |-> At(map, i), src |-> i],
              [dst |-> i + 3, val |-> At(map, i + 3), src |-> i + 3]>>
      [] format = "A8B8G8R8" ->
            <<[dst |-> i, val |-> At(map, i + 3), src |-> i + 3],
              [dst |-> i + 1, val |-> At(map, i + 2), src |-> i + 2],
              [dst |-> i + 2, val |-> At(map, i + 1), src |-> i + 1],
              [dst |-> i + 3, val |-> At(map, i), src |-> i]>>
      [] format = "A8R8G8B8" ->
            <<[dst |-> i, val |-> At(map, i + 1), src |-> i + 1],
              [dst |-> i + 1, val |-> At(map, i + 2), src |-> i + 2],
              [dst |-> i + 2, val |-> At(map, i + 3), src |-> i + 3],
              [dst |-> i + 3, val |-> At(map, i), src |-> i]>>
      [] format = "B8G8R8" ->
            <<[dst |-> i, val |-> At(map, i + 2), src |-> i + 2],
              [dst |-> i + 1, val |-> At(map, i + 1), src |-> i + 1],
              [dst |-> i + 2, val |-> At(map, i), src |-> i],
              [dst |-> i + 3, val |-> 0, src |-> i]>>
      [] format = "R8G8B8" ->
            <<[dst |-> i, val |-> At(map, i), src |-> i],
              [dst |-> i + 1, val |-> At(map, i + 1), src |-> i + 1],
              [dst |-> i + 2, val |-> At(map, i + 2), src |-> i + 2],
              [dst |-> i + 3, val |-> 0, src |-> i]>>
      [] format = "R5G6B5" ->
            <<[dst |-> 2 * i, val |-> r5g5b5(At(map, i), At(map, i + 1)).r, src |-> i + 1],
              [dst |-> 2 * i + 1, val |-> r5g5b5(At(map, i), At(map, i + 1)).g, src |-> i + 1],
              [dst |-> 2 * i + 2, val |-> r5g5b5(At(map, i), At(map, i + 1)).b, src |-> i + 1],
              [dst |-> 2 * i + 3, val |-> 255, src |-> i]>>
      [] format = "p8" ->
            <<[dst |-> P8Dest(i, 0), val |-> palette[At(map, i) + 1].r, src |-> i],
              [dst |-> P8Dest(i, 1), val |-> palette[At(map, i) + 1].g, src |-> i],
              [dst |-> P8Dest(i, 2), val |-> palette[At(map, i) + 1].b, src |-> i],
              [dst |-> P8Dest(i, 3), val |-> palette[At(map, i) + 1].a, src |-> i]>>

\* One write into the vector conv; an index past its end lands outside it.
Store(conv, w) == IF w.dst < Len(conv) THEN [conv EXCEPT ![w.dst + 1] = w.val] ELSE conv

\* The conversion loop from source index i on: the buffer, and whether any
\* index read or written lay past the end of its vector.
RECURSIVE ConvLoop(_, _, _, _, _, _)
ConvLoop(format, map, palette, i, conv, oob) ==
    IF i >= Len(map) THEN [bytes |-> conv, oob |-> oob]
    ELSE LET ws == Writes(format, map, palette, i)
         IN  ConvLoop(format, map, palette, i + Step(format),
                      Store(Store(Store(Store(conv, ws[1]), ws[2]), ws[3]), ws[4]),
                      oob \/ \E k \in 1..4 : ws[k].dst >= Len(conv) \/ ws[k].src >= Len(map))

Supported == {"B8G8R8A8", "R8G8B8A8", "A8B8G8R8", "A8R8G8B8", "B8G8R8", "R8G8B8", "R5G6B5", "p8"}

\* texture::as_rgba8 (lines 142-247): the outcomes of one call.  An index past
\* the end of a vector is undefined behaviour: the call may return the buffer
\* all the same, or the process may die.
as_rgba8(tex, mipmap_level) ==
    IF tex.format \notin Supported
    THEN {[level |-> mipmap_level, kind |-> "unsupported", bytes |-> <<>>, oob |-> FALSE]}
    ELSE IF ~HasData(tex, mipmap_level)
    THEN {[level |-> mipmap_level, kind |-> "out_of_range", bytes |-> <<>>, oob |-> FALSE]}
    ELSE IF tex.format = "R8G8B8A8"
    THEN {[level |-> mipmap_level, kind |-> "image", bytes |-> data(tex, mipmap_level),
           oob |-> FALSE]}
    ELSE LET map == data(tex, mipmap_level)
             r == ConvLoop(tex.format, map, tex.palette, 0,
                           [i \in 1..ConvSize(tex.format, map) |-> 0], FALSE)
         IN  {[level |-> mipmap_level, kind |-> "image", bytes |-> r.bytes, oob |-> r.oob]}
             \cup (IF r.oob
                   THEN {[level |-> mipmap_level, kind |-> "crash", bytes |-> <<>>, oob |-> TRUE]}
                   ELSE {})


----------------------------------------------------------------------------
(* The script's symbol table and its indexes (the decoder is not part of the
   sources at hand; tests/test_script.cc calls it) *)

NoSymbol == -1

HasAddress(sym) == sym.type \in {"function", "prototype", "instance"}

\* ASCII upper-case fold of a name given by its character codes.
upper(name) == [i \in 1..Len(name) |-> IF name[i] \in 97..122 THEN name[i] - 32 ELSE name[i]]

NoScript == [symbols |-> <<>>, by_name |-> <<>>, by_address |-> <<>>]

\* by_name: the first symbol of a name keeps its entry.
IndexNameLastWins(by_name, key, i) ==
    [k \in DOMAIN by_name \cup {key} |-> IF k = key THEN i ELSE by_name[k]]

IndexName(by_name, key, i) ==
    IF key \in DOMAIN by_name THEN by_name
    ELSE [k \in DOMAIN by_name \cup {key} |-> IF k = key THEN i ELSE by_name[k]]

\* by_address: only a symbol with an address, and a nonzero one, is entered;
\* which of two symbols of one address stays is not laid down (replace).
IndexAddress(by_address, sym, i, replace) ==
    IF ~HasAddress(sym) \/ sym.address = 0 THEN by_address
    ELSE IF sym.address \in DOMAIN by_address /\ ~replace THEN by_address
    ELSE [k \in DOMAIN by_address \cup {sym.address} |->
            IF k = sym.address THEN i ELSE by_address[k]]

\* One symbol record read and entered in the indexes, at position Len(symbols).
AddSymbol(sc, sym, replace) ==
    [symbols |-> Append(sc.symbols, sym),
     by_name |-> IndexName(sc.by_name, upper(sym.name), Len(sc.symbols)),
     by_address |-> IndexAddress(sc.by_address, sym, Len(sc.symbols), replace)]

\* The lookups answer with the position of the symbol found, or with none.
find_symbol_by_index(sc, i) == IF i \in 0..(Len(sc.symbols) - 1) THEN i ELSE NoSymbol

find_symbol_by_name(sc, name) ==
    IF upper(name) \in DOMAIN sc.by_name THEN sc.by_name[upper(name)] ELSE NoSymbol

find_symbol_by_address(sc, address) ==
    IF address \in DOMAIN sc.by_address THEN sc.by_address[address] ELSE NoSymbol

----------------------------------------------------------------------------
(* The inputs of softskin_mesh::parse: chunk streams and edits of them *)

\* The longest chunk list an input is built from.
MaxChunks == 3

Chunk(type, payload) == [type |-> type, payload |-> payload]

\* (u16 type, u32 length, payload[length])
EncodeChunk(c) == Enc16(c.type) \o Enc32(Len(c.payload)) \o c.payload

Encode(cs) == Concat([i \in 1..Len(cs) |-> EncodeChunk(cs[i])])

\* The offset of the i-th chunk of a list in its encoding (of the end, for i = Len+1).
Offset(cs, i) == Len(Encode(SubSeq(cs, 1, i - 1)))

Box(k) == [i \in 1..ObbSize |-> k + i]

\* The nodes chunk as the format lays it out: W, n_w, the weight block padded to
\* W, n_n and the wedge normals, n_nodes, the node indices, the boxes.
NodesPayload(weights, normals, nodes, boxes, trailing) ==
    Enc32(4 + Len(Concat(weights))) \o Enc32(Len(weights)) \o Concat(weights)
        \o Enc32(Len(normals)) \o Concat(normals)
        \o Enc16(Len(nodes)) \o Concat(nodes) \o Concat(boxes) \o trailing

AWeight == <<0, 0, 128, 63, 1, 0, 0, 0, 2, 0, 0, 0, 3, 0, 0, 0, 7>>

ANormal == <<1, 0, 0, 0, 0, 0, 128, 63, 0, 0, 0, 0, 9, 0, 0, 0>>

ProtoSection == EncodeChunk(Chunk(chunk_proto, <<2>>)) \o EncodeChunk(Chunk(proto_end, <<>>))

Catalogue ==
    { Chunk(chunk_header, Enc32(1)),
      Chunk(chunk_header, Enc32(1) \o <<9>>),
      Chunk(chunk_header, <<1, 0>>),
      Chunk(chunk_proto, ProtoSection),
      Chunk(chunk_nodes, NodesPayload(<<AWeight>>, <<>>, <<Enc32(5)>>, <<Box(10)>>, <<>>)),
      Chunk(chunk_nodes, NodesPayload(<<>>, <<>>, <<Enc32(1), Enc32(2)>>,
                                      <<Box(20), Box(30)>>, <<7>>)),
      Chunk(chunk_nodes, NodesPayload(<<>>, <<ANormal>>, <<Enc32(3)>>, <<Box(40)>>, <<>>)),
      Chunk(chunk_end, <<>>),
      Chunk(chunk_end, <<1, 2>>),
      Chunk(4660, <<16, 225, 0, 0, 0, 0>>) }

\* Chunks of a type code the walker does not know, with arbitrary payloads.
UnknownChunks ==
    { Chunk(chunk_unknown, <<255, 255, 255, 255, 255, 255, 255>>),
      Chunk(65535, <<16, 225, 0, 0, 0, 0>>),
      Chunk(45311, <<255, 177, 0, 0, 0, 0, 1>>) }

ChunkLists == UNION { [1..n -> Catalogue] : n \in 1..MaxChunks }

\* A stream that parses successfully and ends with its end chunk.
Complete(cs) ==
    /\ cs[Len(cs)].type = chunk_end
    /\ Run(Encode(cs), StartParse).status = "returned"
    /\ Run(Encode(cs), StartParse).pos = Len(Encode(cs))

\* The stream as it is, every proper prefix of a complete stream, and the stream
\* with one unknown chunk put in at a chunk boundary.
Edits(cs) ==
    {[kind |-> "none", at |-> 0, chunk |-> Chunk(chunk_unknown, <<>>)]}
    \cup {[kind |-> "truncate", at |-> k, chunk |-> Chunk(chunk_unknown, <<>>)] :
            k \in IF Complete(cs) THEN 0..(Len(Encode(cs)) - 1) ELSE {}}
    \cup {[kind |-> "insert", at |-> j, chunk |-> u] : j \in 0..Len(cs), u \in UnknownChunks}

\* The chunk list of the edited stream.
Edited(cs, e) ==
    IF e.kind = "insert"
    THEN SubSeq(cs, 1, e.at) \o <<e.chunk>> \o SubSeq(cs, e.at + 1, Len(cs))
    ELSE cs

Apply(cs, e) ==
    IF e.kind = "truncate" THEN SubSeq(Encode(cs), 1, e.at) ELSE Encode(Edited(cs, e))

----------------------------------------------------------------------------
(* softskin_mesh::parse as a state machine: one step per pass of its loop *)

NoEdit == [kind |-> "none", at |-> 0, chunk |-> Chunk(chunk_unknown, <<>>)]

MeshIdle ==
    /\ input = <<>> /\ src = <<>> /\ edit = NoEdit
    /\ ps = [StartParse EXCEPT !.status = "idle"]

NoConv == [level |-> 0, kind |-> "none", bytes |-> <<>>, oob |-> FALSE]

TextureIdle == tin = <<>> /\ tx = [StartTexture EXCEPT !.pc = "idle"] /\ rgba = NoConv

NoMip == [format |-> "other", width |-> Num(0), height |-> Num(0), level |-> 0,
          done |-> FALSE, size |-> Num(0)]

MipIdle == mip = [NoMip EXCEPT !.done = TRUE]

NoLook == [by |-> "none", key |-> 0, found |-> NoSymbol]

ScriptIdle == pending = <<>> /\ scr = NoScript /\ look = [NoLook EXCEPT !.by = "idle"]

Init ==
    /\ src \in ChunkLists
    /\ edit \in Edits(src)
    /\ input = Apply(src, edit)
    /\ ps = StartParse
    /\ TextureIdle /\ MipIdle /\ ScriptIdle

Record == ReadRecord([bytes |-> input, pos |-> ps.pos])

Pass ==
    /\ ps' = Iterate(input, ps)
    /\ UNCHANGED <<input, src, edit, textureVars, mip, scriptVars>>

\* get_ushort, get_uint or extract runs past the end of the buffer and throws.
RecordFails == ps.status = "running" /\ ~Record.ok /\ Pass

ChunkHeader == ps.status = "running" /\ Record.ok /\ Record.type = chunk_header /\ Pass

ChunkProto == ps.status = "running" /\ Record.ok /\ Record.type = chunk_proto /\ Pass

ChunkNodes == ps.status = "running" /\ Record.ok /\ Record.type = chunk_nodes /\ Pass

ChunkEnd == ps.status = "running" /\ Record.ok /\ Record.type = chunk_end /\ Pass

ChunkDefault ==
    /\ ps.status = "running" /\ Record.ok
    /\ Record.type \notin {chunk_header, chunk_proto, chunk_nodes, chunk_end}
    /\ Pass

Next == RecordFails \/ ChunkHeader \/ ChunkProto \/ ChunkNodes \/ ChunkEnd \/ ChunkDefault

Spec == Init /\ [][Next]_vars

----------------------------------------------------------------------------
(* _ztex_mipmap_size applied to its arguments *)

\* The deepest mipmap level asked for.
MaxLevel == 33

MipDims == {Num(0), Num(1), Num(3), Num(4), Num(7), Num(8), Num(65535), Num(65536),
            <<255, 255, 255, 255>>}

AllFormats == {Formats[k] : k \in 1..Len(Formats)} \cup {"other"}

InitMipmapSize ==
    /\ mip \in [format : AllFormats, width : MipDims, height : MipDims,
                level : 0..MaxLevel, done : {FALSE}, size : {Num(0)}]
    /\ MeshIdle /\ TextureIdle /\ ScriptIdle

MipmapSize ==
    /\ ~mip.done
    /\ mip' = [mip EXCEPT !.done = TRUE,
                          !.size = ztex_mipmap_size(mip.format, mip.width, mip.height, mip.level)]
    /\ UNCHANGED <<meshVars, textureVars, scriptVars>>

NextMipmapSize == MipmapSize

SpecMipmapSize == InitMipmapSize /\ [][NextMipmapSize]_vars

----------------------------------------------------------------------------
(* The mipmap size as the format defines it, computed exactly *)

FormulaSize(format, w, h, level) ==
    LET x == Max1(Shr(w, level))
        y == Max1(Shr(h, level))
        bx == Max1(Shr(x, 2))
        by == Max1(Shr(y, 2))
    IN  CASE format \in {"B8G8R8A8", "R8G8B8A8", "A8B8G8R8", "A8R8G8B8"} -> Mul(Mul(x, y), Num(4))
          [] format \in {"B8G8R8", "R8G8B8"} -> Mul(Mul(x, y), Num(3))
          [] format \in {"A4R4G4B4", "A1R5G5B5", "R5G6B5"} -> Mul(Mul(x, y), Num(2))
          [] format = "p8" -> Mul(x, y)
          [] format = "dxt1" -> Mul(Mul(bx, by), Num(8))
          [] format \in {"dxt2", "dxt3", "dxt4", "dxt5"} -> Mul(Mul(bx, by), Num(16))
          [] OTHER -> Num(0)

----------------------------------------------------------------------------
(* texture::parse and as_rgba8 as a state machine *)

\* The longest mipmap chain an input carries in full.
MaxBody == 400

TexDims == {Num(0), Num(1), Num(2), Num(4), Num(8), Num(65536)}

TexCounts == {Num(0), Num(1), Num(2), Num(3), <<255, 255, 255, 255>>}

\* The levels a file of this mipmap count carries.
FileLevels(count) == IF FitsInt(count) THEN (IF ToInt(count) = 0 THEN 1 ELSE ToInt(count)) ELSE 1

RECURSIVE ChainBytes(_, _, _, _)
ChainBytes(format, w, h, levels) ==
    IF levels = 0 THEN 0
    ELSE LET n == FormulaSize(format, w, h, levels - 1)
             rest == ChainBytes(format, w, h, levels - 1)
         IN  IF rest < 0 \/ ~FitsInt(n) \/ ToInt(n) + rest > MaxBody THEN -1
             ELSE ToInt(n) + rest

PaletteBytes == [k \in 1..(4 * ZTEX_PALETTE_ENTRIES) |-> (k - 1) % 256]

Body(n) == [k \in 1..n |-> (7 * k + 1) % 256]

TexFile(sig, version, fcode, w, h, count, n) ==
    sig \o Enc32(version) \o Enc32(fcode) \o w \o h \o count \o w \o h \o <<10, 20, 30, 40>>
        \o (IF FormatOf(Enc32(fcode)) = "p8" THEN PaletteBytes ELSE <<>>) \o Body(n)

\* The body lengths tried for a chain of c bytes: one byte too few, the whole
\* chain, one byte too many (no body for a chain longer than MaxBody).
BodyLengths(c) == IF c < 0 THEN {0} ELSE {n \in {c - 1, c, c + 1} : n >= 0}

TexFiles ==
    UNION { { TexFile(ZTEX_SIGNATURE, 0, q[1], q[2], q[3], q[4], n) :
                n \in BodyLengths(ChainBytes(FormatOf(Enc32(q[1])), q[2], q[3],
                                             FileLevels(q[4]))) } :
            q \in (0..Len(Formats)) \X TexDims \X TexDims \X TexCounts }
    \cup { TexFile(<<90, 84, 69, 89>>, 0, 0, Num(1), Num(1), Num(1), 4),
           TexFile(ZTEX_SIGNATURE, 1, 0, Num(1), Num(1), Num(1), 4),
           <<90, 84>>, <<90, 84, 69, 88, 0, 0>>,
           SubSeq(TexFile(ZTEX_SIGNATURE, 0, 0, Num(1), Num(1), Num(1), 4), 1, 30) }

InitTexture ==
    /\ tin \in TexFiles
    /\ tx = StartTexture
    /\ rgba = NoConv
    /\ MeshIdle /\ MipIdle /\ ScriptIdle

TexHeader ==
    /\ tx.pc = "header"
    /\ tx' = ParseHeader(tin, tx)
    /\ UNCHANGED <<tin, rgba, meshVars, mip, scriptVars>>

TexLevel ==
    /\ tx.pc = "levels" /\ tx.level >= 0
    /\ tx' = ParseLevel(tin, tx)
    /\ UNCHANGED <<tin, rgba, meshVars, mip, scriptVars>>

TexReturn ==
    /\ tx.pc = "levels" /\ tx.level < 0
    /\ tx' = ParseReturn(tx)
    /\ UNCHANGED <<tin, rgba, meshVars, mip, scriptVars>>

\* A call of as_rgba8 on the parsed texture, for a level it holds.
AsRgba8 ==
    /\ tx.pc = "returned"
    /\ \E mipmap_level \in 0..(Len(tx.tex.textures) - 1) :
          rgba' \in as_rgba8(tx.tex, mipmap_level)
    /\ UNCHANGED <<tin, tx, meshVars, mip, scriptVars>>

NextTexture == TexHeader \/ TexLevel \/ TexReturn \/ AsRgba8

SpecTexture == InitTexture /\ [][NextTexture]_vars

----------------------------------------------------------------------------
(* script::parse and the symbol lookups as a state machine *)

\* The most symbols a script holds.
MaxSymbols == 3

\* The addresses symbols carry and lookups ask for.
MaxAddress == 2

Names == {<<97>>, <<65>>, <<98, 46, 99>>}

SymbolPool ==
    {[name |-> n, type |-> "int", address |-> 0] : n \in Names}
    \cup [name : Names, type : {"function"}, address : 0..MaxAddress]

InitScript ==
    /\ pending \in UNION { [1..n -> SymbolPool] : n \in 0..MaxSymbols }
    /\ scr = NoScript
    /\ look = NoLook
    /\ MeshIdle /\ TextureIdle /\ MipIdle

ParseSymbol ==
    /\ pending # <<>>
    /\ \E replace \in BOOLEAN : scr' = AddSymbol(scr, Head(pending), replace)
    /\ pending' = Tail(pending)
    /\ UNCHANGED <<look, meshVars, textureVars, mip>>

FindByIndex ==
    /\ pending = <<>>
    /\ \E i \in 0..(MaxSymbols + 1) :
          look' = [by |-> "index", key |-> i, found |-> find_symbol_by_index(scr, i)]
    /\ UNCHANGED <<pending, scr, meshVars, textureVars, mip>>

FindByName ==
    /\ pending = <<>>
    /\ \E n \in Names \cup {<<66, 46, 67>>, <<122>>} :
          look' = [by |-> "name", key |-> n, found |-> find_symbol_by_name(scr, n)]
    /\ UNCHANGED <<pending, scr, meshVars, textureVars, mip>>

FindByAddress ==
    /\ pending = <<>>
    /\ \E a \in 0..(MaxAddress + 1) :
          look' = [by |-> "address", key |-> a, found |-> find_symbol_by_address(scr, a)]
    /\ UNCHANGED <<pending, scr, meshVars, textureVars, mip>>

NextScript == ParseSymbol \/ FindByIndex \/ FindByName \/ FindByAddress

SpecScript == InitScript /\ [][NextScript]_vars

----------------------------------------------------------------------------
(* Claims about softskin_mesh::parse *)

\* The chunk list the input encodes (before any truncation).
InputChunks == Edited(src, edit)

Terminated == ps.status # "running"

\* C1: every chunk record that starts at parent position p leaves the parent
\* cursor at p + 6 + length when the next record is read, whatever its type code
\* and however many payload bytes its decoder read; leftover payload bytes do
\* not make the parse fail.  The records the walker reads are checked against
\* the chunk list the input was encoded from.
C1_CursorAfterChunk ==
    /\ Len(ps.hist) <= Len(InputChunks)
    /\ \A i \in 1..Len(ps.hist) :
          LET h == ps.hist[i]
          IN  /\ h.start = Offset(InputChunks, i)
              /\ h.type = InputChunks[i].type
              /\ h.length = Len(InputChunks[i].payload)
              /\ h.used <= h.length
              /\ (i < Len(ps.hist) \/ ps.status # "failed")
                    => (IF i < Len(ps.hist) THEN ps.hist[i + 1].start ELSE ps.pos)
                         = h.start + 6 + h.length
              /\ h.ok => h.after # "failed"

\* C1 witness: a decoder that read none of its payload, one that read some of
\* it, and one that read all of it, each followed by a further record.
C1_Witness ==
    /\ Len(ps.hist) = 3
    /\ ps.status = "returned"
    /\ \E i, j \in 1..2 :
          /\ ps.hist[i].used = 0 /\ ps.hist[i].length > 0
          /\ ps.hist[j].used > 0 /\ ps.hist[j].used < ps.hist[j].length
    /\ ps.hist[3].used = ps.hist[3].length

\* C2: one chunk of an unknown type code put between two chunks of a stream that
\* parses raises no error and leaves the resulting mesh (proto mesh, weights,
\* wedge normals, nodes, bboxes) as it is without the chunk.
C2_ChunkResync ==
    (edit.kind = "insert" /\ Terminated
        /\ Run(Encode(src), StartParse).status = "returned")
    => /\ ps.status = "returned"
       /\ ps.msh = Run(Encode(src), StartParse).msh

\* C2 witness: the inserted chunk was walked over between two real chunks, one
\* of them a nodes chunk decoded after it, and the parse returned.
C2_Witness ==
    /\ edit.kind = "insert" /\ edit.at = 1
    /\ ps.status = "returned"
    /\ Len(ps.hist) = 4
    /\ ps.hist[2].type = edit.chunk.type
    /\ ps.hist[3].type = chunk_nodes
    /\ Len(ps.msh.nodes) = 2

\* No end chunk lies whole within the input.
NoCompleteEnd ==
    \A i \in 1..Len(InputChunks) :
        InputChunks[i].type = chunk_end => Offset(InputChunks, i + 1) > Len(input)

\* C3: parse returns a mesh only after it has consumed an end chunk and reads no
\* byte of the parent after it; on an input with no complete end chunk (every
\* proper prefix of a complete stream is one) the parse ends with an
\* end-of-stream error.  Every pass of the loop consumes at least the six bytes
\* of a record header, so it cannot loop forever.
C3_EndChunk ==
    /\ ps.status = "returned"
          => /\ Len(ps.hist) > 0
             /\ ps.hist[Len(ps.hist)].type = chunk_end
             /\ ps.pos = Offset(InputChunks, Len(ps.hist) + 1)
             /\ ps.pos <= Len(input)
    /\ (NoCompleteEnd /\ Terminated) => ps.status = "failed"
    /\ 6 * Len(ps.hist) <= ps.pos
    /\ ps.pos <= Len(input)

\* C3 witness: a proper prefix of a complete stream, cut inside a later chunk,
\* has ended in an error after walking the chunks before the cut.
C3_Witness ==
    /\ edit.kind = "truncate"
    /\ Len(src) = 3
    /\ edit.at > Offset(src, 3)
    /\ ps.status = "failed"
    /\ Len(ps.hist) = 2

\* C9: decoding a nodes chunk reads n_n wedge-normal records of 16 bytes after
\* the u32 n_n, so that wedge_normals has n_n entries and the u16 n_nodes is read
\* right after those records.
C9_WedgeNormalsRead ==
    ps.probe.seen
    => /\ Fits31(ps.probe.n_n)
       /\ ps.probe.n_nodes_at = ps.probe.after_n_n + 16 * Dec32(ps.probe.n_n)
       /\ Cardinality({i \in 1..Len(ps.hist) : ps.hist[i].type = chunk_nodes}) = 1
             => Len(ps.msh.wedge_normals) = Dec32(ps.probe.n_n)

\* C10: a returned mesh has as many bboxes as nodes, bboxes[i] being the box read
\* for nodes[i], after any sequence of chunks.
C10_BoxPerNode ==
    ps.status = "returned"
    => /\ Len(ps.msh.bboxes) = Len(ps.msh.nodes)
       /\ ps.msh.bboxes = ps.probe.node_obbs

----------------------------------------------------------------------------
(* Claims about the texture decoder *)

Eq(a, b) == Norm(a) = Norm(b)

\* C4: a texture returned by texture::parse has mipmap_count >= 1 and as many
\* stored levels as mipmap_count, smallest first; stored index L has the length
\* mipmap_size(format, width, height, mipmap_count-1-L) when nothing was
\* DXT-decompressed, and mipmap_width(L) * mipmap_height(L) * 4 when the levels
\* were.
C4_MipmapShape ==
    tx.pc = "returned"
    => LET t == tx.tex
           n == Len(t.textures)
       IN  /\ ~IsZero(t.mipmap_count)
           /\ Eq(Num(n), t.mipmap_count)
           /\ \A L \in 0..(n - 1) :
                 /\ L > 0 => Len(t.textures[L]) <= Len(t.textures[L + 1])
                 /\ IF tx.dxt_decompressed
                    THEN Eq(Num(Len(t.textures[L + 1])),
                            Mul(Mul(mipmap_width(t, L), mipmap_height(t, L)), Num(4)))
                    ELSE Eq(Num(Len(t.textures[L + 1])),
                            FormulaSize(t.stored, t.width, t.height, n - 1 - L))

\* C5: _ztex_mipmap_size(format, w, h, level) is the size the format defines,
\* for every format, every w and h and every level >= 0, not truncated by the
\* 32-bit return type.
C5_SizeFormula ==
    (mip.done /\ mip.format # "other")
    => Eq(mip.size, FormulaSize(mip.format, mip.width, mip.height, mip.level))

\* C6: for a p8 texture as_rgba8(level) returns 4*n bytes for a level of n
\* palette indices, the bytes at i*4+0 .. i*4+3 being r, g, b, a of
\* palette[map[i]].
C6_PaletteExpansion ==
    (tx.pc = "returned" /\ tx.tex.format = "p8" /\ rgba.kind # "none")
    => /\ rgba.kind = "image"
       /\ LET map == data(tx.tex, rgba.level)
          IN  /\ Len(rgba.bytes) = 4 * Len(map)
              /\ \A i \in 0..(Len(map) - 1) :
                    LET e == tx.tex.palette[map[i + 1] + 1]
                    IN  SubSeq(rgba.bytes, 4 * i + 1, 4 * i + 4) = <<e.r, e.g, e.b, e.a>>

\* The bytes one pixel takes in a stored level.
BytesPerPixel(format) ==
    CASE format \in {"B8G8R8A8", "R8G8B8A8", "A8B8G8R8", "A8R8G8B8"} -> 4
      [] format \in {"B8G8R8", "R8G8B8"} -> 3
      [] format \in {"A4R4G4B4", "A1R5G5B5", "R5G6B5"} -> 2
      [] OTHER -> 1

\* C7: as_rgba8(level) returns an image of exactly 4 bytes per pixel of the
\* level for the 32-bit formats, B8G8R8, R8G8B8, R5G6B5 and p8, and fails with
\* an unsupported-format error for every other format; it returns no buffer of
\* another length.
C7_RgbaLength ==
    (tx.pc = "returned" /\ rgba.kind # "none")
    => IF tx.tex.format \in Supported
       THEN /\ rgba.kind = "image"
            /\ Len(rgba.bytes)
                 = 4 * (Len(data(tx.tex, rgba.level)) \div BytesPerPixel(tx.tex.format))
       ELSE rgba.kind = "unsupported"

\* A level of a whole number of pixels of its format, at least one.
WholePixels(format, map) ==
    Len(map) >= BytesPerPixel(format) /\ Len(map) % BytesPerPixel(format) = 0

\* C11: in as_rgba8, for every supported format and every mipmap whose length is
\* that of a whole number of pixels (at least one), every index the conversion
\* loop reads in the mipmap and writes in the output buffer is below the length
\* of that vector.
C11_IndicesInBounds ==
    (tx.pc = "returned" /\ rgba.kind \in {"image", "crash"}
        /\ tx.tex.format \in Supported
        /\ WholePixels(tx.tex.format, data(tx.tex, rgba.level)))
    => ~rgba.oob

----------------------------------------------------------------------------
(* Claims about the script indexes *)

Parsed == pending = <<>> /\ look.by # "idle"

Positions == 0..(Len(scr.symbols) - 1)

Sym(p) == scr.symbols[p + 1]

\* The first symbol of a name, up to case.
FirstNamed(key) ==
    CHOOSE p \in Positions :
        /\ upper(Sym(p).name) = key
        /\ \A q \in Positions : upper(Sym(q).name) = key => p <= q

\* The symbols that carry the address a.
Addressed(a) == {p \in Positions : HasAddress(Sym(p)) /\ Sym(p).address = a}

QueryNames == Names \cup {<<66, 46, 67>>, <<122>>}

\* Lookups by an index, a name or an address that no symbol has find nothing.
AbsentFindsNothing ==
    /\ \A i \in 0..(MaxSymbols + 1) : i \notin Positions => find_symbol_by_index(scr, i) = NoSymbol
    /\ \A n \in QueryNames :
          (\A p \in Positions : upper(Sym(p).name) # upper(n))
             => find_symbol_by_name(scr, n) = NoSymbol
    /\ \A a \in 0..(MaxAddress + 1) :
          Addressed(a) = {} => find_symbol_by_address(scr, a) = NoSymbol

\* C8 as stated: every symbol is found by its position and (the first of its
\* name) by its upper-cased name, every symbol that has an address is found by
\* that address, and a key no symbol has finds nothing.
C8_IndexRoundTrip ==
    Parsed
    => /\ \A p \in Positions :
             /\ find_symbol_by_index(scr, p) = p
             /\ find_symbol_by_name(scr, upper(Sym(p).name)) = FirstNamed(upper(Sym(p).name))
             /\ HasAddress(Sym(p)) => find_symbol_by_address(scr, Sym(p).address) = p
       /\ AbsentFindsNothing

\* C8 amended: as C8, but by address a symbol is found only when its address is
\* nonzero and no other symbol carries it; a shared nonzero address finds one of
\* the symbols that share it, and address 0 finds nothing.
C8_IndexRoundTripNonzeroUnique ==
    Parsed
    => /\ \A p \in Positions :
             /\ find_symbol_by_index(scr, p) = p
             /\ find_symbol_by_name(scr, upper(Sym(p).name)) = FirstNamed(upper(Sym(p).name))
             /\ (HasAddress(Sym(p)) /\ Sym(p).address # 0)
                   => find_symbol_by_address(scr, Sym(p).address) \in Addressed(Sym(p).address)
             /\ (HasAddress(Sym(p)) /\ Sym(p).address # 0 /\ Addressed(Sym(p).address) = {p})
                   => find_symbol_by_address(scr, Sym(p).address) = p
       /\ find_symbol_by_address(scr, 0) = NoSymbol
       /\ AbsentFindsNothing

\* C8 witness: a script with two symbols of one name up to case and a function
\* at address 2 has been parsed, and that function was looked up by its address.
C8_Witness ==
    /\ Parsed
    /\ Len(scr.symbols) = 3
    /\ upper(Sym(0).name) = upper(Sym(1).name) /\ Sym(0).name # Sym(1).name
    /\ HasAddress(Sym(2)) /\ Sym(2).address = 2
    /\ look.by = "address" /\ look.key = 2 /\ look.found = 2

====
